---- MODULE Spec2Model ----
(***************************************************************************)
(* Model of client/client.go of launcheq: the orchestrator                 *)
(* selfUpdateAndPatch, the manifest fetcher fetchFileList, the file        *)
(* synchronizer patch with downloadPatchFile, and the self updater         *)
(* selfUpdate.  Strings are sequences of one-character strings so that     *)
(* strings.Contains, HasPrefix, ToLower, ToUpper and TrimSpace are         *)
(* computed and not assumed.                                               *)
(***************************************************************************)
EXTENDS Integers, Sequences, FiniteSets, TLC

(* ------------------------------ bounds --------------------------------- *)
\* Download Entries plus Delete Entries of a manifest
MaxEntries == 2
\* synchronization passes run on one Client
MaxPasses == 2

(* ------------------------- package strings ----------------------------- *)
Lowers == <<"a", "b", "d", "f", "m", "n", "o", "p", "s", "t", "u", "x">>
Uppers == <<"A", "B", "D", "F", "M", "N", "O", "P", "S", "T", "U", "X">>

UpperChar(c) ==
    IF \E k \in 1..Len(Lowers) : Lowers[k] = c
    THEN Uppers[CHOOSE k \in 1..Len(Lowers) : Lowers[k] = c]
    ELSE c

LowerChar(c) ==
    IF \E k \in 1..Len(Uppers) : Uppers[k] = c
    THEN Lowers[CHOOSE k \in 1..Len(Uppers) : Uppers[k] = c]
    ELSE c

ToUpper(s) == [k \in 1..Len(s) |-> UpperChar(s[k])]

ToLower(s) == [k \in 1..Len(s) |-> LowerChar(s[k])]

IsSpace(c) == c \in {" ", "\n", "\t", "\r"}

RECURSIVE TrimLeft(_)
TrimLeft(s) == IF s # <<>> /\ IsSpace(Head(s)) THEN TrimLeft(Tail(s)) ELSE s

RECURSIVE TrimRight(_)
TrimRight(s) ==
    IF s # <<>> /\ IsSpace(s[Len(s)]) THEN TrimRight(SubSeq(s, 1, Len(s) - 1)) ELSE s

TrimSpace(s) == TrimRight(TrimLeft(s))

Contains(s, sub) ==
    \E k \in 1..(Len(s) - Len(sub) + 1) : SubSeq(s, k, k + Len(sub) - 1) = sub

HasPrefix(s, p) == Len(s) >= Len(p) /\ SubSeq(s, 1, Len(p)) = p

HasSuffix(s, p) == Len(s) >= Len(p) /\ SubSeq(s, Len(s) - Len(p) + 1, Len(s)) = p

TrimSuffix(s, p) == IF HasSuffix(s, p) THEN SubSeq(s, 1, Len(s) - Len(p)) ELSE s

\* filepath.Base for a path that does not end in a separator
LastSlash(s) ==
    IF \E k \in 1..Len(s) : s[k] = "/"
    THEN CHOOSE k \in 1..Len(s) : s[k] = "/" /\ \A j \in (k + 1)..Len(s) : s[j] # "/"
    ELSE 0

Base(s) == SubSeq(s, LastSlash(s) + 1, Len(s))

\* the directory os.MkdirAll creates for a path given with a trailing separator
CleanDir(p) == TrimSuffix(p, <<"/">>)

DotDot == <<".", ".">>
Slash == <<"/">>
MapsPrefix == <<"m", "a", "p", "s", "/">>
NotFoundLit == <<"N", "o", "t", " ", "F", "o", "u", "n", "d">>

(* ------------------------------ paths ---------------------------------- *)
NameA == <<"a">>
NameUp == <<".", ".", "/", "x">>
NameMap == <<"M", "a", "p", "s", "/", "m">>
DirMaps == <<"M", "a", "p", "s">>
ZipPath == <<"m", "a", "p", "s", ".", "z", "i", "p">>

\* baseName + ".bat" and "." + baseName + ".exe.old", left by an earlier self update
BatPath == <<"b", "a", "t">>
OldExePath == <<"o", "l", "d">>

Paths == {NameA, NameUp, NameMap, DirMaps, ZipPath, BatPath, OldExePath}

\* what a path holds: nothing, a directory, or a regular file with a content
Contents == {"c0", "c1", "c2", "zip"}
IsFile(v) == v \in Contents

\* md5Checksum formats the digest with %x: lower-case hex
Md5Hex(content) ==
    CASE content = "c0" -> <<"d", "4">>
      [] content = "c1" -> <<"a", "1">>
      [] content = "c2" -> <<"b", "2">>
      [] OTHER -> <<"f", "0">>

(* ----------------------------- manifest -------------------------------- *)
DownloadPool ==
    { [Name |-> NameA, Size |-> 1, Md5 |-> Md5Hex("c1")],
      [Name |-> NameA, Size |-> 1, Md5 |-> ToUpper(Md5Hex("c1"))],
      [Name |-> NameUp, Size |-> 1, Md5 |-> Md5Hex("c2")],
      [Name |-> NameMap, Size |-> 2, Md5 |-> Md5Hex("c1")] }

DeletePool == { [Name |-> NameA], [Name |-> NameUp], [Name |-> DirMaps] }

SeqsUpTo(S, n) == UNION { [1..k -> S] : k \in 0..n }

ManifestVersion == "v1"

ManifestsOf(n) ==
    { m \in { [Version |-> ManifestVersion, Downloads |-> d, Deletes |-> x] :
                d \in SeqsUpTo(DownloadPool, n), x \in SeqsUpTo(DeletePool, n) } :
        Len(m.Downloads) + Len(m.Deletes) <= n }

Manifests == ManifestsOf(MaxEntries)

\* manifests of at most one entry: the runs that vary the self-update site
SmallManifests == ManifestsOf(1)

\* &FileList{}
EmptyFileList == [Version |-> "", Downloads |-> <<>>, Deletes |-> <<>>]

NoFileList == [Version |-> "nil", Downloads |-> <<>>, Deletes |-> <<>>]

\* what the per-file endpoint and the bulk archive serve
ServedContent == "c1"
Archives == { {}, {NameMap} }

InitialTrees ==
    { [p \in Paths |->
         CASE p = NameA -> a
           [] p = NameUp -> "c1"
           [] p = DirMaps -> IF m = "absent" THEN "absent" ELSE "dir"
           [] p = NameMap -> m
           [] p = BatPath -> "c0"
           [] OTHER -> "absent"] :
        a \in {"absent", "c1", "c2"}, m \in {"absent", "c1"} }

\* bodies the hash endpoint may answer with
HashBodies ==
    { <<" ", "A", "1", "\n">>,
      <<"b", "2", "\n">>,
      NotFoundLit,
      <<" ", "n", "o", "t", " ", "f", "o", "u", "n", "d", "\n">> }

\* the body served in the runs that vary the manifest
UsualHashBody == <<" ", "A", "1", "\n">>

\* the executable the run starts from, and the one the binary endpoint serves
OrigExe == "c1"
NewExe == "c2"

(* ------------------------------- state --------------------------------- *)
VARIABLES
    pc,                \* position in selfUpdateAndPatch / patch / selfUpdate
    remoteList,        \* the manifest the server publishes
    hashSite,          \* the body the server publishes at launcheq-hash.txt
    cacheFileList,     \* c.cacheFileList
    cfgVersion,        \* c.cfg.FileListVersion
    fs,                \* the local tree
    isMapsDownloaded,  \* package variable isMapsDownloaded
    isPatched,         \* c.isPatched
    idx,               \* index of the range loop in patch
    totalDownloaded,   \* totalDownloaded in patch
    seen,              \* per Download Entry: what os.Stat found at its name
    delSeen,           \* per Delete Entry: what os.Stat found, and whether Remove failed
    fetchErr,          \* result of fetchFileList
    patchErr,          \* result of patch
    selfErr,           \* result of selfUpdate
    ret,               \* result of selfUpdateAndPatch
    requests,          \* HTTP GETs issued, in order
    fsLog,             \* filesystem mutations and config saves, in order
    versionWrites,     \* values assigned to c.cfg.FileListVersion, in order
    exe,               \* content of the running executable
    remoteData,        \* body read from the hash endpoint
    applied,           \* calls of selfupdate.Apply
    pass,              \* number of the synchronization pass, 0 before the first
    passMark,          \* histories' lengths, recorded version and tree when the pass began
    responses,         \* what the manifest URLs answered, in the order of the requests
    iterErr,           \* per Download Entry: the error its iteration ended with
    openHandles,       \* response bodies, files and readers left open by a returned call
    outcome,           \* how Client.Patch ended: Exit(0), Exit(1) or the launch
    isAutoLaunch       \* c.cfg.IsAutoLaunch

vars == <<pc, remoteList, hashSite, cacheFileList, cfgVersion, fs, isMapsDownloaded,
          isPatched, idx, totalDownloaded, seen, delSeen, fetchErr, patchErr, selfErr, ret,
          requests, fsLog, versionWrites, exe, remoteData, applied, pass, passMark,
          responses, iterErr, openHandles, outcome, isAutoLaunch>>

Init ==
    /\ pc = "fetch"
    /\ remoteList \in Manifests
    /\ hashSite \in HashBodies
    /\ (hashSite = UsualHashBody \/ remoteList \in SmallManifests)
    /\ cacheFileList = NoFileList
    /\ cfgVersion \in {"", ManifestVersion}
    /\ fs \in InitialTrees
    /\ isMapsDownloaded = FALSE
    /\ isPatched = FALSE
    /\ idx = 0
    /\ totalDownloaded = 0
    /\ seen = <<>>
    /\ delSeen = <<>>
    /\ fetchErr = "none"
    /\ patchErr = "none"
    /\ selfErr = "none"
    /\ ret = "none"
    /\ requests = <<>>
    /\ fsLog = <<>>
    /\ versionWrites = <<>>
    /\ exe = OrigExe
    /\ remoteData = <<>>
    /\ applied = 0
    /\ pass = 0
    /\ passMark = [log |-> 0, req |-> 0, ver |-> 0, recorded |-> "", fs |-> fs]
    /\ responses = <<>>
    /\ iterErr = <<>>
    /\ openHandles = {}
    /\ outcome = "running"
    /\ isAutoLaunch \in BOOLEAN
    /\ (~isAutoLaunch \/ (remoteList \in SmallManifests /\ hashSite = UsualHashBody))

\* entries of the histories: an HTTP GET, a mutation of the tree or of the config
Req(url, i) == [url |-> url, by |-> i]
Mut(op, path, phase, i) == [op |-> op, path |-> path, phase |-> phase, by |-> i]

(* ------------------------------ handles ------------------------------- *)
\* the handles a call acquired, and those it released before it returned
Handles(o, c) == [opened |-> o, closed |-> c]
NoHandles == Handles({}, {})

\* acquired and released, by a defer or by an explicit Close
Scoped(S) == Handles(S, S)

Both(a, b) == Handles(a.opened \cup b.opened, a.closed \cup b.closed)

LeftOpen(h) == h.opened \ h.closed

(* ------------------------- selfUpdateAndPatch -------------------------- *)
AfterFetchIgnored(err) == "patch"

\* lines 214-218: a failed fetch is logged and the function returns nil
AfterFetch(err) == IF err # "nil" THEN "returned" ELSE "patch"

AfterPatchIgnored(err) == "selfUpdate"

\* lines 220-225: a failed patch is returned, otherwise selfUpdate runs
AfterPatch(err) == IF err # "nil" THEN "returned" ELSE "selfUpdate"

RetAfterPatch(err) == IF err # "nil" THEN "patch" ELSE "none"

(* ---------------------------- fetchFileList ---------------------------- *)
Responses == {"neterr", "200", "404"}

FetchRequestsBoth(primary) == <<Req("filelist", 0), Req("legacy", 0)>>

\* lines 241-249: the legacy URL is tried when the first Get returned an error
FetchRequests(primary) ==
    IF primary = "neterr" THEN <<Req("filelist", 0), Req("legacy", 0)>>
    ELSE <<Req("filelist", 0)>>

FetchResponse(primary, legacy) == IF primary = "neterr" THEN legacy ELSE primary

\* the answers to the requests of FetchRequests
FetchResponses(primary, legacy) ==
    IF primary = "neterr" THEN <<primary, legacy>> ELSE <<primary>>

\* lines 250-255: the body is closed by the defer of line 255, after the status check
FetchHandles(resp) ==
    CASE resp = "neterr" -> NoHandles
      [] resp # "200" -> Handles({"filelist.body"}, {})
      [] OTHER -> Scoped({"filelist.body"})

\* lines 246-264
FetchError(resp, parses) ==
    CASE resp = "neterr" -> "transport"
      [] resp # "200" -> "status"
      [] ~parses -> "decode"
      [] OTHER -> "nil"

FetchedList(resp, parses, old, remote) ==
    CASE resp = "neterr" -> old
      [] resp # "200" -> EmptyFileList
      [] ~parses -> old
      [] OTHER -> remote

fetchFileList ==
    /\ pc = "fetch"
    /\ \E primary \in Responses, legacy \in Responses, parses \in BOOLEAN :
         LET resp == FetchResponse(primary, legacy)
             err == FetchError(resp, parses)
         IN /\ requests' = requests \o FetchRequests(primary)
            /\ responses' = responses \o FetchResponses(primary, legacy)
            /\ openHandles' = openHandles \cup LeftOpen(FetchHandles(resp))
            /\ cacheFileList' = FetchedList(resp, parses, cacheFileList, remoteList)
            /\ fetchErr' = err
            /\ pc' = AfterFetch(err)
            /\ ret' = IF AfterFetch(err) = "returned" THEN "nil" ELSE ret
    /\ UNCHANGED <<remoteList, hashSite, cfgVersion, fs, isMapsDownloaded, isPatched, idx,
                   totalDownloaded, seen, delSeen, patchErr, selfErr, fsLog, versionWrites,
                   exe, remoteData, applied, pass, passMark, iterErr, outcome,
                   isAutoLaunch>>

(* --------------------------- downloadPatchFile ------------------------- *)
MapsFlagNotSet == FALSE

\* line 547
MapsFlagAfterBulk == TRUE

\* lines 637-676: unpack writes every file of the archive
RECURSIVE Unpacked(_, _)
Unpacked(f, arch) ==
    IF arch = {} THEN f
    ELSE LET n == CHOOSE x \in arch : TRUE
         IN Unpacked([f EXCEPT ![n] = ServedContent], arch \ {n})

RECURSIVE UnpackLog(_, _)
UnpackLog(arch, i) ==
    IF arch = {} THEN <<>>
    ELSE LET n == CHOOSE x \in arch : TRUE
         IN <<Mut("write", n, "dl", i)>> \o UnpackLog(arch \ {n}, i)

\* faults inside the loop of unpack: f.Open (line 662) and io.Copy (line 667)
UnpackFaults == {"zipentry", "zipcopy"}

\* lines 632-677: the reader is closed by the defer of line 641; outFile and rc are
\* closed at the end of an iteration only (lines 672-673)
unpack(f, arch, i, fault) ==
    LET n == CHOOSE x \in arch : TRUE
        cut == [f EXCEPT ![n] = "c0"]
        made == <<Mut("create", n, "dl", i)>>
    IN CASE fault = "unpack" ->
              [err |-> "unpack", fs |-> f, log |-> <<>>, h |-> NoHandles]
         [] fault = "zipentry" /\ arch # {} ->
              [err |-> "unpack", fs |-> cut, log |-> made,
               h |-> Both(Scoped({"zip.reader"}), Handles({"zip.outFile"}, {}))]
         [] fault = "zipcopy" /\ arch # {} ->
              [err |-> "unpack", fs |-> cut, log |-> made,
               h |-> Both(Scoped({"zip.reader"}), Handles({"zip.outFile", "zip.rc"}, {}))]
         [] OTHER ->
              [err |-> "nil", fs |-> Unpacked(f, arch), log |-> UnpackLog(arch, i),
               h |-> IF arch = {} THEN Scoped({"zip.reader"})
                     ELSE Scoped({"zip.reader", "zip.outFile", "zip.rc"})]

\* lines 519-548
BulkDownload(i, f, fault, arch) ==
    LET get == <<Req("maps.zip", i)>>
        made == <<Mut("create", ZipPath, "dl", i)>>
        body == Scoped({"maps.body"})
        w == Scoped({"maps.zip"})
        un == unpack([f EXCEPT ![ZipPath] = "zip"], arch, i, fault)
    IN CASE fault = "get" ->
              [err |-> "download", fs |-> f, isMaps |-> FALSE, reqs |-> get, log |-> <<>>,
               h |-> NoHandles]
         [] fault \in {"status", "create"} ->
              [err |-> "download", fs |-> f, isMaps |-> FALSE, reqs |-> get, log |-> <<>>,
               h |-> body]
         [] fault = "copy" ->
              [err |-> "download", fs |-> [f EXCEPT ![ZipPath] = "c0"], isMaps |-> FALSE,
               reqs |-> get, log |-> made, h |-> Both(body, w)]
         [] un.err # "nil" ->
              [err |-> "download", fs |-> un.fs, isMaps |-> FALSE,
               reqs |-> get, log |-> made \o un.log, h |-> Both(Both(body, w), un.h)]
         [] OTHER ->
              [err |-> "nil", fs |-> un.fs, isMaps |-> MapsFlagAfterBulk, reqs |-> get,
               log |-> made \o un.log, h |-> Both(Both(body, w), un.h)]

\* lines 550-572
FileDownload(name, i, f, isMaps, fault) ==
    LET get == <<Req("file", i)>>
        made == <<Mut("create", name, "dl", i)>>
        body == Scoped({"file.body"})
        w == Scoped({"file.w"})
    IN CASE fault = "create" ->
              [err |-> "download", fs |-> f, isMaps |-> isMaps, reqs |-> <<>>, log |-> <<>>,
               h |-> NoHandles]
         [] fault = "get" ->
              [err |-> "download", fs |-> [f EXCEPT ![name] = "c0"], isMaps |-> isMaps,
               reqs |-> get, log |-> made, h |-> w]
         [] fault \in {"status", "copy"} ->
              [err |-> "download", fs |-> [f EXCEPT ![name] = "c0"], isMaps |-> isMaps,
               reqs |-> get, log |-> made, h |-> Both(w, body)]
         [] OTHER ->
              [err |-> "nil", fs |-> [f EXCEPT ![name] = ServedContent], isMaps |-> isMaps,
               reqs |-> get, log |-> made, h |-> Both(w, body)]

NeedsBulkNever(isMaps, name) == FALSE

\* line 518: the bulk archive replaces the per-file download
NeedsBulk(isMaps, name) == ~isMaps /\ HasPrefix(ToLower(name), MapsPrefix)

downloadPatchFile(entry, i, f, isMaps, fault, arch) ==
    IF NeedsBulk(isMaps, entry.Name)
    THEN BulkDownload(i, f, fault, arch)
    ELSE FileDownload(entry.Name, i, f, isMaps, fault)

(* -------------------------------- patch -------------------------------- *)
IsUpToDateNever(recorded, version) == FALSE

\* lines 397-404
IsUpToDate(recorded, version) == recorded = version

IsTraversalUnchecked(name) == FALSE

\* lines 424 and 478
IsTraversal(name) == Contains(name, DotDot)

HashMatchesNever(hash, md5) == hash # hash

\* line 456
HashMatches(hash, md5) == hash = md5

\* where the range loops of patch stand after entry k-1
LoopNext(phase, k, fl) ==
    CASE phase = "downloads" /\ k <= Len(fl.Downloads) -> <<"downloads", k>>
      [] phase = "downloads" /\ Len(fl.Deletes) >= 1 -> <<"deletes", 1>>
      [] phase = "deletes" /\ k <= Len(fl.Deletes) -> <<"deletes", k>>
      [] OTHER -> <<"finish", 0>>

\* where patch returns to: the orchestrator (lines 220-225) on the first pass
PatchReturn(p, err) == IF p <= 1 THEN AfterPatch(err) ELSE "returned"

\* lines 391-422: the fast path, or the start of the download loop
PatchEnter ==
    /\ pass' = pass + 1
    /\ passMark' = [log |-> Len(fsLog), req |-> Len(requests), ver |-> Len(versionWrites),
                    recorded |-> cfgVersion, fs |-> fs]
    /\ IF IsUpToDate(cfgVersion, cacheFileList.Version)
       THEN /\ patchErr' = "nil"
            /\ pc' = PatchReturn(pass + 1, "nil")
            /\ UNCHANGED idx
       ELSE /\ pc' = LoopNext("downloads", 1, cacheFileList)[1]
            /\ idx' = LoopNext("downloads", 1, cacheFileList)[2]
            /\ patchErr' = "none"
    /\ totalDownloaded' = 0
    /\ UNCHANGED <<remoteList, hashSite, cacheFileList, cfgVersion, fs, isMapsDownloaded,
                   isPatched, seen, delSeen, fetchErr, selfErr, ret, requests, fsLog,
                   versionWrites, exe, remoteData, applied, responses, iterErr, openHandles,
                   outcome, isAutoLaunch>>

\* patch as called by selfUpdateAndPatch, line 220
PatchBegin ==
    /\ pc = "patch"
    /\ PatchEnter

\* patch run once more on the same Client after a pass that returned nil
PatchAgain ==
    /\ pc = "returned"
    /\ patchErr = "nil"
    /\ pass < MaxPasses
    /\ PatchEnter

\* lines 429-435: os.MkdirAll of the entry's directory
MkdirResult(name, i, f, fault) ==
    LET newPath == TrimSuffix(name, Base(name))
        d == CleanDir(newPath)
    IN CASE ~Contains(name, Slash) -> [err |-> "nil", fs |-> f, log |-> <<>>]
         [] d \notin DOMAIN f -> [err |-> "nil", fs |-> f, log |-> <<>>]
         [] f[d] = "dir" -> [err |-> "nil", fs |-> f, log |-> <<>>]
         [] IsFile(f[d]) \/ fault = "mkdir" -> [err |-> "mkdir", fs |-> f, log |-> <<>>]
         [] OTHER -> [err |-> "nil", fs |-> [f EXCEPT ![d] = "dir"],
                      log |-> <<Mut("mkdir", d, "dl", i)>>]

DownloadFaults ==
    {"none", "mkdir", "stat", "md5", "create", "get", "status", "copy", "unpack"}
        \cup UnpackFaults

\* lines 575-580: the file opened by md5Checksum is closed by its defer
Md5Handles(fault) == IF fault = "md5" THEN NoHandles ELSE Scoped({"md5.f"})

AbortsNever(err) == FALSE

\* lines 432-434, 439-449, 452-454, 468-470: every error ends patch at once
Aborts(err) == err # "nil"

\* lines 423-475, one iteration; the result of the iteration as a record
DownloadIteration(entry, i, f, isMaps, fault, arch) ==
    LET mk == MkdirResult(entry.Name, i, f, fault)
        local == mk.fs[entry.Name]
        dl == downloadPatchFile(entry, i, mk.fs, isMaps, fault, arch)
        stop(e, g, l, o) == [err |-> e, fs |-> g, isMaps |-> isMaps, reqs |-> <<>>, log |-> l,
                             got |-> FALSE, seen |-> "abort", h |-> o]
    IN CASE IsTraversal(entry.Name) ->
              [err |-> "nil", fs |-> f, isMaps |-> isMaps, reqs |-> <<>>, log |-> <<>>,
               got |-> FALSE, seen |-> "skipped", h |-> NoHandles]
         [] mk.err # "nil" -> stop("mkdir", f, <<>>, NoHandles)
         [] fault = "stat" -> stop("stat", mk.fs, mk.log, NoHandles)
         [] local # "absent" /\ (fault = "md5" \/ ~IsFile(local)) ->
              stop("md5checksum", mk.fs, mk.log, Md5Handles("md5"))
         [] local # "absent" /\ HashMatches(Md5Hex(local), entry.Md5) ->
              [err |-> "nil", fs |-> mk.fs, isMaps |-> isMaps, reqs |-> <<>>,
               log |-> mk.log, got |-> FALSE, seen |-> local, h |-> Md5Handles(fault)]
         [] OTHER ->
              [err |-> dl.err, fs |-> dl.fs, isMaps |-> dl.isMaps, reqs |-> dl.reqs,
               log |-> mk.log \o dl.log, got |-> dl.err = "nil", seen |-> local,
               h |-> IF local = "absent" THEN dl.h ELSE Both(Md5Handles(fault), dl.h)]

CountedSizeNone(entry) == 0

\* lines 443 and 472: the declared size of a downloaded entry is added to the total
CountedSize(entry) == entry.Size

PatchDownload ==
    /\ pc = "downloads"
    /\ idx <= Len(cacheFileList.Downloads)
    /\ \E fault \in DownloadFaults, arch \in Archives :
         LET entry == cacheFileList.Downloads[idx]
             r == DownloadIteration(entry, idx, fs, isMapsDownloaded, fault, arch)
             nxt == LoopNext("downloads", idx + 1, cacheFileList)
         IN /\ fs' = r.fs
            /\ isMapsDownloaded' = r.isMaps
            /\ requests' = requests \o r.reqs
            /\ fsLog' = fsLog \o r.log
            /\ seen' = Append(seen, r.seen)
            /\ iterErr' = Append(iterErr, r.err)
            /\ openHandles' = openHandles \cup LeftOpen(r.h)
            /\ totalDownloaded' = IF r.got THEN totalDownloaded + CountedSize(entry)
                                  ELSE totalDownloaded
            /\ isPatched' = (isPatched \/ r.got)
            /\ IF Aborts(r.err)
               THEN /\ patchErr' = r.err
                    /\ pc' = PatchReturn(pass, r.err)
                    /\ ret' = RetAfterPatch(r.err)
                    /\ UNCHANGED idx
               ELSE /\ pc' = nxt[1]
                    /\ idx' = nxt[2]
                    /\ UNCHANGED <<patchErr, ret>>
    /\ UNCHANGED <<remoteList, hashSite, cacheFileList, cfgVersion, delSeen, fetchErr,
                   selfErr, versionWrites, exe, remoteData, applied, pass, passMark,
                   responses, outcome, isAutoLaunch>>

DeleteFaults == {"none", "stat", "remove"}

IsDirUnchecked(v) == FALSE

\* line 489
IsDir(v) == v = "dir"

AfterRemoveErrorAbort == "remove"

\* lines 493-496: a failed os.Remove is logged and the loop continues
AfterRemoveError == "nil"

\* lines 477-499, one iteration
DeleteIteration(entry, j, f, fault) ==
    LET was == f[entry.Name]
        keep(e, w, failed) == [err |-> e, fs |-> f, log |-> <<>>,
                               seen |-> [was |-> w, rmErr |-> failed]]
    IN CASE IsTraversal(entry.Name) -> keep("nil", "skipped", FALSE)
         [] fault = "stat" -> keep("stat", "abort", FALSE)
         [] was = "absent" -> keep("nil", was, FALSE)
         [] IsDir(was) -> keep("nil", was, FALSE)
         [] fault = "remove" -> keep(AfterRemoveError, was, TRUE)
         [] OTHER -> [err |-> "nil", fs |-> [f EXCEPT ![entry.Name] = "absent"],
                      log |-> <<Mut("remove", entry.Name, "del", j)>>,
                      seen |-> [was |-> was, rmErr |-> FALSE]]

PatchDelete ==
    /\ pc = "deletes"
    /\ idx <= Len(cacheFileList.Deletes)
    /\ \E fault \in DeleteFaults :
         LET entry == cacheFileList.Deletes[idx]
             r == DeleteIteration(entry, idx, fs, fault)
             nxt == LoopNext("deletes", idx + 1, cacheFileList)
         IN /\ fs' = r.fs
            /\ fsLog' = fsLog \o r.log
            /\ delSeen' = Append(delSeen, r.seen)
            /\ IF r.err # "nil"
               THEN /\ patchErr' = r.err
                    /\ pc' = PatchReturn(pass, r.err)
                    /\ ret' = RetAfterPatch(r.err)
                    /\ UNCHANGED idx
               ELSE /\ pc' = nxt[1]
                    /\ idx' = nxt[2]
                    /\ UNCHANGED <<patchErr, ret>>
    /\ UNCHANGED <<remoteList, hashSite, cacheFileList, cfgVersion, isMapsDownloaded,
                   isPatched, totalDownloaded, seen, fetchErr, selfErr, requests,
                   versionWrites, exe, remoteData, applied, pass, passMark, responses,
                   iterErr, openHandles, outcome, isAutoLaunch>>

RecordedVersionStale(fl) == ""

\* line 501
RecordedVersion(fl) == fl.Version

\* lines 501-514: the version is recorded and saved; a failing Save is only logged
PatchFinish ==
    /\ pc = "finish"
    /\ cfgVersion' = RecordedVersion(cacheFileList)
    /\ versionWrites' = Append(versionWrites, RecordedVersion(cacheFileList))
    /\ fsLog' = fsLog \o <<Mut("save", <<>>, "patch", 0)>>
    /\ patchErr' = "nil"
    /\ pc' = PatchReturn(pass, "nil")
    /\ UNCHANGED <<remoteList, hashSite, cacheFileList, fs, isMapsDownloaded, isPatched,
                   idx, totalDownloaded, seen, delSeen, fetchErr, selfErr, ret, requests,
                   exe, remoteData, applied, pass, passMark, responses, iterErr,
                   openHandles, outcome, isAutoLaunch>>

(* ------------------------------ selfUpdate ----------------------------- *)
AfterSelfUpdateNoExit(err) == "returned"

\* lines 226-234: the antivirus message exits, any other error is logged
AfterSelfUpdate(err) == IF err = "virus" THEN "exit1" ELSE "returned"

\* lines 277-293: leftovers of an earlier self update are removed when present
RECURSIVE Cleanup(_, _)
Cleanup(f, names) ==
    IF names = <<>> THEN [fs |-> f, log |-> <<>>]
    ELSE LET n == Head(names)
             rest == Cleanup(IF f[n] = "absent" THEN f ELSE [f EXCEPT ![n] = "absent"],
                             Tail(names))
         IN [fs |-> rest.fs,
             log |-> (IF f[n] = "absent" THEN <<>> ELSE <<Mut("remove", n, "self", 0)>>)
                     \o rest.log]

HashFaults == {"none", "executable", "checksum", "get", "status", "read"}

\* lines 296-311: the executable read by md5Checksum, and the body of the hash
\* endpoint, which line 311 closes after the status check of line 306
HashHandles(fault) ==
    CASE fault \in {"executable", "checksum"} -> NoHandles
      [] fault = "get" -> Scoped({"md5.f"})
      [] fault = "status" -> Both(Scoped({"md5.f"}), Handles({"hash.body"}, {}))
      [] OTHER -> Scoped({"md5.f", "hash.body"})

\* lines 267-314
SelfUpdateFetchHash ==
    /\ pc = "selfUpdate"
    /\ \E fault \in HashFaults :
         LET cl == IF fault = "executable" THEN [fs |-> fs, log |-> <<>>]
                   ELSE Cleanup(fs, <<BatPath, OldExePath>>)
         IN /\ fs' = cl.fs
            /\ fsLog' = fsLog \o cl.log
            /\ requests' = IF fault \in {"executable", "checksum"} THEN requests
                           ELSE Append(requests, Req("hash", 0))
            /\ openHandles' = openHandles \cup LeftOpen(HashHandles(fault))
            /\ IF fault # "none"
               THEN /\ selfErr' = fault
                    /\ pc' = AfterSelfUpdate(fault)
                    /\ ret' = "nil"
                    /\ UNCHANGED remoteData
               ELSE /\ remoteData' = hashSite
                    /\ pc' = "gate"
                    /\ UNCHANGED <<selfErr, ret>>
    /\ UNCHANGED <<remoteList, hashSite, cacheFileList, cfgVersion, isMapsDownloaded,
                   isPatched, idx, totalDownloaded, seen, delSeen, fetchErr, patchErr,
                   versionWrites, exe, applied, pass, passMark, responses, iterErr, outcome,
                   isAutoLaunch>>

NormalizeNoTrim(s) == ToUpper(s)

\* lines 316-317
Normalize(s) == ToUpper(TrimSpace(s))

\* line 319
IsSentinel(remoteHash) == remoteHash = NotFoundLit

\* lines 316-327: "sentinel", "same" or "update"
GateDecision(myHash, data) ==
    LET mine == Normalize(myHash)
        remoteHash == Normalize(data)
    IN CASE IsSentinel(remoteHash) -> "sentinel"
         [] mine = remoteHash -> "same"
         [] OTHER -> "update"

ApplyResults == {"ok", "apply", "virus"}

\* lines 331-345: the result of the binary download and of selfupdate.Apply
UpdateError(bin, apply) ==
    CASE bin = "neterr" -> "get"
      [] bin # "200" -> "status"
      [] apply # "ok" -> apply
      [] OTHER -> "nil"

\* lines 332-336: the body of the binary endpoint is closed by the defer of line 336
ExeHandles(decision, bin) ==
    IF decision = "update" /\ bin # "neterr" THEN Scoped({"exe.body"}) ELSE NoHandles

\* Exit of lines 680-687, called with 1 at line 229
ExitAfterSelfUpdate(err, was) == IF AfterSelfUpdate(err) = "exit1" THEN "exit1" ELSE was

\* lines 316-381
SelfUpdateGate ==
    /\ pc = "gate"
    /\ \E bin \in Responses, apply \in ApplyResults :
         LET decision == GateDecision(Md5Hex(exe), remoteData)
             err == IF decision = "update" THEN UpdateError(bin, apply) ELSE "nil"
             called == decision = "update" /\ bin = "200"
         IN /\ requests' = IF decision = "update" THEN Append(requests, Req("exe", 0))
                           ELSE requests
            /\ applied' = IF called THEN applied + 1 ELSE applied
            /\ exe' = IF called /\ apply = "ok" THEN NewExe ELSE exe
            /\ fsLog' = IF called /\ apply = "ok"
                        THEN Append(fsLog, Mut("apply", <<>>, "self", 0)) ELSE fsLog
            /\ selfErr' = err
            /\ pc' = AfterSelfUpdate(err)
            /\ ret' = IF AfterSelfUpdate(err) = "returned" THEN "nil" ELSE ret
            /\ outcome' = ExitAfterSelfUpdate(err, outcome)
            /\ openHandles' = openHandles \cup LeftOpen(ExeHandles(decision, bin))
    /\ UNCHANGED <<remoteList, hashSite, cacheFileList, cfgVersion, fs, isMapsDownloaded,
                   isPatched, idx, totalDownloaded, seen, delSeen, fetchErr, patchErr,
                   versionWrites, remoteData, pass, passMark, responses, iterErr,
                   isAutoLaunch>>

(* ----------------------------- Client.Patch ---------------------------- *)
StartResults == {"ok", "fail"}

\* the file Client.Patch writes the log to, line 198
LogPath == <<"l", "o", "g">>

\* lines 169-187: Exit(1) only inside the isPatched branch, else Exit(0) or the launch
PatchExit(isErrored, patched, auto, start) ==
    CASE patched /\ isErrored -> "exit1"
      [] ~auto -> "exit0"
      [] start = "ok" -> "launched"
      [] OTHER -> "launchFailed"

\* lines 154-208, after selfUpdateAndPatch returned; Patch calls it once, so a
\* second pass belongs to no Patch
PatchEnd ==
    /\ pc = "returned"
    /\ pass <= 1
    /\ \E start \in StartResults :
         LET end == PatchExit(ret = "patch", isPatched, isAutoLaunch, start)
         IN /\ outcome' = end
            /\ fsLog' = IF end \in {"launched", "launchFailed"}
                        THEN Append(fsLog, Mut("write", LogPath, "launch", 0)) ELSE fsLog
    /\ pc' = "done"
    /\ UNCHANGED <<remoteList, hashSite, cacheFileList, cfgVersion, fs, isMapsDownloaded,
                   isPatched, idx, totalDownloaded, seen, delSeen, fetchErr, patchErr,
                   selfErr, ret, requests, versionWrites, exe, remoteData, applied, pass,
                   passMark, responses, iterErr, openHandles, isAutoLaunch>>

(* ---------------------------- specification ---------------------------- *)
Next ==
    \/ fetchFileList
    \/ PatchBegin
    \/ PatchAgain
    \/ PatchDownload
    \/ PatchDelete
    \/ PatchFinish
    \/ SelfUpdateFetchHash
    \/ SelfUpdateGate
    \/ PatchEnd

Spec == Init /\ [][Next]_vars

(* ------------------------- reading the histories ----------------------- *)
PatchPhases == {"dl", "del", "patch"}
DownloadUrls == {"file", "maps.zip"}
SyncPaths == {NameA, NameUp, NameMap, DirMaps, ZipPath}

\* mutations and downloads made by the synchronizer since the current pass began
PassMuts == { k \in (passMark.log + 1)..Len(fsLog) : fsLog[k].phase \in PatchPhases }
PassDownloads == { k \in (passMark.req + 1)..Len(requests) : requests[k].url \in DownloadUrls }

\* downloads requested on behalf of Download Entry i
ReqsBy(i) == { k \in 1..Len(requests) : requests[k].by = i /\ requests[k].url \in DownloadUrls }

\* Download Entry i created or wrote the file at path
Wrote(i, path) ==
    \E k \in 1..Len(fsLog) :
        /\ fsLog[k].phase = "dl" /\ fsLog[k].by = i
        /\ fsLog[k].path = path /\ fsLog[k].op \in {"create", "write"}

MutsByDelete(j) == { k \in 1..Len(fsLog) : fsLog[k].phase = "del" /\ fsLog[k].by = j }

BulkRequests == { k \in 1..Len(requests) : requests[k].url = "maps.zip" }

IsMapsName(name) == HasPrefix(ToLower(name), MapsPrefix)

\* the local file found for a Download Entry has exactly the manifest's hash
SameHash(found, entry) == found \in Contents /\ Md5Hex(found) = entry.Md5

\* selfUpdateAndPatch has returned to Client.Patch
Returned == pc \in {"returned", "done"}

(* ------------------------------- claims -------------------------------- *)

\* C1: a pass that starts with the recorded version equal to the manifest's version
\* makes no directory, downloads nothing, deletes nothing, saves no config and
\* returns nil; a second pass after a completed first pass is such a pass.
C1_FastPathNoMutation ==
    /\ (pass >= 1 /\ passMark.recorded = cacheFileList.Version) =>
          /\ PassMuts = {}
          /\ PassDownloads = {}
          /\ Len(versionWrites) = passMark.ver
          /\ \A p \in SyncPaths : fs[p] = passMark.fs[p]
          /\ patchErr = "nil"
    /\ pass >= 2 => passMark.recorded = cacheFileList.Version

C1_Witness ==
    /\ pass = 2 /\ pc = "returned"
    /\ \E k \in 1..passMark.log : fsLog[k].phase = "dl"

\* C2 as stated: in a pass that completes, an entry without ".." whose local file
\* has the manifest's hash is not downloaded; any other such entry is downloaded
\* exactly once and that download creates or overwrites the file at Name.
C2_Original ==
    patchErr = "nil" =>
        \A i \in 1..Len(seen) :
            LET entry == cacheFileList.Downloads[i]
            IN ~Contains(entry.Name, DotDot) =>
                  IF SameHash(seen[i], entry)
                  THEN ReqsBy(i) = {}
                  ELSE Cardinality(ReqsBy(i)) = 1 /\ Wrote(i, entry.Name)

\* C2 amended: the one download is the per-file download, which creates or
\* overwrites the file at Name, except that for the first "maps/"-prefixed entry
\* that needs downloading it is the bulk archive, written to maps.zip.
C2_DiffCorrectness ==
    patchErr = "nil" =>
        \A i \in 1..Len(seen) :
            LET entry == cacheFileList.Downloads[i]
            IN ~Contains(entry.Name, DotDot) =>
                  IF SameHash(seen[i], entry)
                  THEN ReqsBy(i) = {}
                  ELSE /\ Cardinality(ReqsBy(i)) = 1
                       /\ \A k \in ReqsBy(i) :
                            \/ /\ requests[k].url = "file"
                               /\ Wrote(i, entry.Name)
                            \/ /\ requests[k].url = "maps.zip"
                               /\ IsMapsName(entry.Name)
                               /\ \A j \in BulkRequests : j >= k
                               /\ Wrote(i, ZipPath)

C2_Witness ==
    /\ patchErr = "nil"
    /\ \E i, j \in 1..Len(seen) :
          /\ \E k \in ReqsBy(i) : requests[k].url = "maps.zip"
          /\ ~Wrote(i, cacheFileList.Downloads[i].Name)
          /\ \E k \in ReqsBy(j) : requests[k].url = "file"

\* C3: an iteration of either loop on an entry whose Name contains ".." changes no
\* file, issues no request, does not abort and moves on to the next entry.
C3_TraversalSafety ==
    [][ ( \/ pc = "downloads" /\ Contains(cacheFileList.Downloads[idx].Name, DotDot)
          \/ pc = "deletes" /\ Contains(cacheFileList.Deletes[idx].Name, DotDot) )
        => /\ fs' = fs
           /\ fsLog' = fsLog
           /\ requests' = requests
           /\ patchErr' = patchErr
           /\ <<pc', idx'>> = LoopNext(pc, idx + 1, cacheFileList) ]_vars

C3_Witness ==
    /\ Len(seen) = 2
    /\ seen[1] = "skipped"
    /\ seen[2] \in Contents \cup {"absent"}
    /\ fs[NameUp] = "c1"

\* C4 as stated: a Delete Entry never removes a directory, does nothing and does
\* not abort when the path is absent, and leaves no regular file behind.
C4_Original ==
    \A j \in 1..Len(delSeen) :
        LET name == cacheFileList.Deletes[j].Name
            d == delSeen[j]
        IN /\ d.was = "dir" => fs[name] = "dir" /\ MutsByDelete(j) = {}
           /\ d.was = "absent" =>
                 /\ MutsByDelete(j) = {}
                 /\ j = Len(delSeen) => patchErr \in {"none", "nil"}
           /\ d.was \in Contents => fs[name] = "absent"

\* C4 amended: a regular file is removed unless os.Remove fails, in which case
\* the file stays and the pass goes on without aborting.
C4_DeleteSafety ==
    \A j \in 1..Len(delSeen) :
        LET name == cacheFileList.Deletes[j].Name
            d == delSeen[j]
        IN /\ d.was = "dir" => fs[name] = "dir" /\ MutsByDelete(j) = {}
           /\ d.was = "absent" =>
                 /\ MutsByDelete(j) = {}
                 /\ j = Len(delSeen) => patchErr \in {"none", "nil"}
           /\ (d.was \in Contents /\ ~d.rmErr) => fs[name] = "absent"
           /\ (d.was \in Contents /\ d.rmErr) =>
                 /\ MutsByDelete(j) = {}
                 /\ j = Len(delSeen) => patchErr \in {"none", "nil"}

C4_Witness ==
    /\ Len(delSeen) = 2
    /\ delSeen[1].was = "dir" /\ fs[cacheFileList.Deletes[1].Name] = "dir"
    /\ delSeen[2].was \in Contents /\ ~delSeen[2].rmErr
    /\ fs[cacheFileList.Deletes[2].Name] = "absent"

\* C5: however many "maps/"-prefixed entries need downloading, maps.zip is
\* requested at most once in a run.
C5_BulkAtMostOnce == Cardinality(BulkRequests) <= 1

C5_Witness ==
    \E i, j \in 1..Len(seen) :
        /\ i < j
        /\ IsMapsName(cacheFileList.Downloads[i].Name)
        /\ IsMapsName(cacheFileList.Downloads[j].Name)
        /\ \E k \in ReqsBy(i) : requests[k].url = "maps.zip"
        /\ \E k \in ReqsBy(j) : requests[k].url = "file"

(* --------------------------- self-update claims ------------------------ *)
\* selfUpdate read the remote hash (status 200) and has returned
GateDone == (Returned \/ pc = "exit1") /\ remoteData # <<>>

ExeRequests == { k \in 1..Len(requests) : requests[k].url = "exe" }

LocalHashUpper == ToUpper(TrimSpace(Md5Hex(OrigExe)))
RemoteHashUpper == ToUpper(TrimSpace(remoteData))
SentinelUpper == ToUpper(NotFoundLit)

\* C6: once the remote hash was read, equal normalized hashes mean no request to
\* the binary endpoint and no replacement; differing hashes with a remote value
\* other than the sentinel mean exactly one request to the binary endpoint and,
\* when it answers 200, exactly one call of selfupdate.Apply.
C6_SelfUpdateGate ==
    GateDone =>
        IF RemoteHashUpper = LocalHashUpper
        THEN ExeRequests = {} /\ applied = 0 /\ exe = OrigExe
        ELSE RemoteHashUpper # SentinelUpper =>
                /\ Cardinality(ExeRequests) = 1
                /\ IF selfErr \in {"get", "status"}
                   THEN applied = 0 /\ exe = OrigExe
                   ELSE applied = 1 /\ (selfErr = "nil" => exe = NewExe)

C6_Witness ==
    /\ GateDone
    /\ RemoteHashUpper # LocalHashUpper /\ RemoteHashUpper # SentinelUpper
    /\ Cardinality(ExeRequests) = 1 /\ applied = 1 /\ exe = NewExe

\* C7 as stated: when the hash endpoint answers "Not Found" in any letter case,
\* selfUpdate requests no binary, applies no replacement and returns nil.
C7_Original ==
    (GateDone /\ RemoteHashUpper = SentinelUpper) =>
        ExeRequests = {} /\ applied = 0 /\ exe = OrigExe /\ selfErr = "nil"

(* --------------------------- orchestrator claims ----------------------- *)
\* C8: a pass records the version at most once, only when every Download Entry
\* and Delete Entry was processed and patch returns nil, and records the
\* manifest's version; an aborted pass and a fast-path pass record nothing.
C8_VersionRecord ==
    /\ Len(versionWrites) <= passMark.ver + 1
    /\ pass = 0 => versionWrites = <<>>
    /\ Len(versionWrites) > passMark.ver =>
          /\ patchErr = "nil"
          /\ Len(seen) = Len(cacheFileList.Downloads)
          /\ Len(delSeen) = Len(cacheFileList.Deletes)
          /\ \A i \in 1..Len(seen) : seen[i] # "abort"
          /\ \A j \in 1..Len(delSeen) : delSeen[j].was # "abort"
          /\ versionWrites[Len(versionWrites)] = cacheFileList.Version
          /\ cfgVersion = cacheFileList.Version
    /\ (pass >= 1 /\ Len(versionWrites) = passMark.ver) => cfgVersion = passMark.recorded
    /\ (pass >= 1 /\ ( \/ patchErr \notin {"none", "nil"}
                       \/ passMark.recorded = cacheFileList.Version )) =>
          Len(versionWrites) = passMark.ver

C8_Witness ==
    /\ pass = 1 /\ passMark.recorded # cacheFileList.Version
    /\ versionWrites = <<ManifestVersion>> /\ cfgVersion = ManifestVersion
    /\ Len(seen) >= 1 /\ Len(delSeen) >= 1

FetchFailed == fetchErr \notin {"none", "nil"}

\* C9: when fetchFileList fails, selfUpdateAndPatch returns nil with neither the
\* synchronizer nor the self updater run: no file, recorded version or executable
\* changes; the synchronizer only ever gets a manifest parsed from a 200 response.
C9_FetchFailureNoOp ==
    /\ FetchFailed =>
          /\ Returned /\ ret = "nil"
          /\ pass = 0 /\ patchErr = "none" /\ selfErr = "none"
          /\ \A k \in 1..Len(fsLog) : fsLog[k].phase = "launch"
          /\ fs \in InitialTrees
          /\ versionWrites = <<>>
          /\ exe = OrigExe /\ applied = 0
          /\ \A k \in 1..Len(requests) : requests[k].url \in {"filelist", "legacy"}
    /\ pass >= 1 => fetchErr = "nil" /\ cacheFileList = remoteList

C9_Witness ==
    /\ fetchErr = "status" /\ cacheFileList = EmptyFileList
    /\ cfgVersion = EmptyFileList.Version
    /\ pc = "returned" /\ ret = "nil"

SelfUpdateRan == pc \in {"gate", "exit1"} \/ selfErr # "none"

Rank(url) ==
    CASE url \in {"filelist", "legacy"} -> 1
      [] url \in DownloadUrls -> 2
      [] OTHER -> 3

\* C10: selfUpdate runs only after fetchFileList and then patch returned nil;
\* when patch fails its error is returned and selfUpdate is not invoked.
C10_OrchestratorOrder ==
    /\ pass >= 1 => fetchErr = "nil"
    /\ (pc = "selfUpdate" \/ SelfUpdateRan) =>
          fetchErr = "nil" /\ patchErr = "nil" /\ pass >= 1
    /\ patchErr \notin {"none", "nil"} =>
          /\ Returned /\ ret = "patch"
          /\ ~SelfUpdateRan
          /\ \A k \in 1..Len(requests) : Rank(requests[k].url) <= 2
    /\ \A j, k \in 1..Len(requests) :
          j < k => Rank(requests[j].url) <= Rank(requests[k].url)

C10_Witness ==
    /\ pc = "returned" /\ ret = "nil" /\ selfErr = "nil"
    /\ \E j, k \in 1..Len(requests) :
          j < k /\ requests[j].url = "file" /\ requests[k].url = "hash"

(* ------------------------------ exit claims ---------------------------- *)
PatchFailed == patchErr \notin {"none", "nil"}

\* C11 as stated: whenever patch returned an error, Client.Patch ends with
\* Exit(1) and reaches neither Exit(0) nor the launch, whether or not a file was
\* downloaded before the failure.
C11_Original == (PatchFailed /\ pc = "done") => outcome = "exit1"

(* ------------------------------ fetch claims --------------------------- *)
FetchDone == fetchErr # "none"

ManifestRequests == { k \in 1..Len(requests) : requests[k].url \in {"filelist", "legacy"} }

LegacyRequested == \E k \in ManifestRequests : requests[k].url = "legacy"

\* what fetchFileList does with requests and responses, common to both readings
FetchFallback ==
    /\ Cardinality(ManifestRequests) <= 2
    /\ ManifestRequests = 1..Len(responses)
    /\ LegacyRequested <=> responses[1] = "neterr"
    /\ \A k \in ManifestRequests :
          /\ requests[k].url = (IF k = 1 THEN "filelist" ELSE "legacy")
          /\ responses[k] \notin {"neterr", "200"} =>
                k = Len(responses) /\ fetchErr = "status"

\* C12 as stated: at most two requests, the legacy URL requested exactly when the
\* primary request got no response, a non-200 answer returned as an error with no
\* further request, and c.cacheFileList assigned only from a 200 response whose
\* body parses.
C12_Original ==
    FetchDone =>
        /\ FetchFallback
        /\ cacheFileList # NoFileList =>
              /\ responses[Len(responses)] = "200"
              /\ fetchErr = "nil"
              /\ cacheFileList = remoteList

\* C12 amended: the served manifest is stored only from a 200 response whose body
\* parses; a non-200 response replaces the current manifest by an empty one; a
\* transport or decode failure leaves it as it was.
C12_FetchFallback ==
    FetchDone =>
        /\ FetchFallback
        /\ fetchErr = "nil" =>
              responses[Len(responses)] = "200" /\ cacheFileList = remoteList
        /\ fetchErr = "status" => cacheFileList = EmptyFileList
        /\ fetchErr \in {"transport", "decode"} => cacheFileList = NoFileList

C12_Witness ==
    /\ responses = <<"neterr", "404">>
    /\ LegacyRequested /\ Cardinality(ManifestRequests) = 2
    /\ fetchErr = "status" /\ cacheFileList = EmptyFileList

(* ---------------------------- completion claims ------------------------ *)
\* the pass went through both loops and returned nil
PassComplete ==
    pass >= 1 /\ passMark.recorded # cacheFileList.Version /\ patchErr = "nil"

\* ... and no operation in it failed: every other failure ends the pass
AllSucceeded == PassComplete /\ \A j \in 1..Len(delSeen) : ~delSeen[j].rmErr

\* Download Entry i was downloaded, by a per-file request or by the bulk archive
Downloaded(i) == i \in 1..Len(iterErr) /\ iterErr[i] = "nil" /\ ReqsBy(i) # {}

\* sum of the declared sizes of the downloaded entries among the first k
RECURSIVE DeclaredSize(_)
DeclaredSize(k) ==
    IF k = 0 THEN 0
    ELSE DeclaredSize(k - 1)
            + (IF Downloaded(k) THEN cacheFileList.Downloads[k].Size ELSE 0)

NamedByDelete(name) ==
    \E j \in 1..Len(cacheFileList.Deletes) : cacheFileList.Deletes[j].Name = name

\* Download Entry i got the bulk archive and the archive held no file for its Name
BulkWithoutFile(i) ==
    /\ \E k \in ReqsBy(i) : requests[k].url = "maps.zip"
    /\ ~Wrote(i, cacheFileList.Downloads[i].Name)

\* C13 as stated: after a pass in which every operation succeeded, every Download
\* Entry without ".." that was absent is present, every Delete Entry that was a
\* regular file is absent, the recorded version is the manifest's and the
\* downloaded total is at least the sum of the sizes of the downloaded entries.
C13_Original ==
    AllSucceeded =>
        /\ \A i \in 1..Len(cacheFileList.Downloads) :
              LET name == cacheFileList.Downloads[i].Name
              IN (~Contains(name, DotDot) /\ passMark.fs[name] = "absent") =>
                    fs[name] \in Contents
        /\ \A j \in 1..Len(cacheFileList.Deletes) :
              LET name == cacheFileList.Deletes[j].Name
              IN passMark.fs[name] \in Contents => fs[name] = "absent"
        /\ cfgVersion = cacheFileList.Version
        /\ totalDownloaded >= DeclaredSize(Len(cacheFileList.Downloads))

\* C13 amended: the absent Download Entry is present unless a Delete Entry names
\* it too or it was served by the bulk archive and the archive lacks it; the
\* Delete Entry that is absent afterwards is the one without "..".
C13_Completion ==
    AllSucceeded =>
        /\ Len(seen) = Len(cacheFileList.Downloads)
        /\ Len(delSeen) = Len(cacheFileList.Deletes)
        /\ \A i \in 1..Len(cacheFileList.Downloads) :
              LET name == cacheFileList.Downloads[i].Name
              IN ( /\ ~Contains(name, DotDot)
                   /\ passMark.fs[name] = "absent"
                   /\ ~NamedByDelete(name)
                   /\ ~BulkWithoutFile(i) ) =>
                    fs[name] \in Contents
        /\ \A j \in 1..Len(cacheFileList.Deletes) :
              LET name == cacheFileList.Deletes[j].Name
              IN (~Contains(name, DotDot) /\ passMark.fs[name] \in Contents) =>
                    fs[name] = "absent"
        /\ cfgVersion = cacheFileList.Version
        /\ totalDownloaded >= DeclaredSize(Len(cacheFileList.Downloads))

C13_Witness ==
    /\ AllSucceeded
    /\ Len(cacheFileList.Downloads) = 1 /\ Len(cacheFileList.Deletes) = 1
    /\ passMark.fs[cacheFileList.Downloads[1].Name] = "absent"
    /\ fs[cacheFileList.Downloads[1].Name] \in Contents
    /\ passMark.fs[cacheFileList.Deletes[1].Name] \in Contents
    /\ fs[cacheFileList.Deletes[1].Name] = "absent"
    /\ cfgVersion = ManifestVersion
    /\ totalDownloaded = cacheFileList.Downloads[1].Size

(* ------------------------------ hash claims ---------------------------- *)
\* the local file found for Download Entry i has the entry's hash up to letter case
SameHashAnyCase(i) ==
    /\ seen[i] \in Contents
    /\ ToUpper(Md5Hex(seen[i])) = ToUpper(cacheFileList.Downloads[i].Md5)

\* C14 as stated: a Download Entry whose local file has the expected hash up to
\* the case of the hex letters counts as a match and is not downloaded.
C14_Original ==
    \A i \in 1..Len(seen) :
        (~Contains(cacheFileList.Downloads[i].Name, DotDot) /\ SameHashAnyCase(i)) =>
            ReqsBy(i) = {}

(* ---------------------------- resource claims -------------------------- *)
\* C15 as stated: when fetchFileList, selfUpdate, downloadPatchFile, md5Checksum
\* or unpack has returned, on success or with an error, none of the response
\* bodies, files and archive readers it acquired is still open.
C15_Original == openHandles = {}

(* ---------------------------- self-update errors ----------------------- *)
SelfUpdateErrors == {"executable", "checksum", "get", "status", "read", "apply"}

\* C16: a step of selfUpdate leaves the synchronized files, the recorded version
\* and the change flag as they are; when it ends with an error selfUpdateAndPatch
\* returns nil, except for the antivirus message, which ends the run by Exit(1).
C16_SelfUpdateTolerance ==
    [][ (pc = "selfUpdate" \/ pc = "gate") =>
          /\ \A p \in SyncPaths : fs'[p] = fs[p]
          /\ cfgVersion' = cfgVersion /\ versionWrites' = versionWrites
          /\ isPatched' = isPatched /\ patchErr' = patchErr
          /\ selfErr' \in SelfUpdateErrors =>
                pc' = "returned" /\ ret' = "nil" /\ outcome' = "running"
          /\ selfErr' = "virus" <=> (pc' = "exit1" /\ outcome' = "exit1") ]_vars

C16_Witness ==
    /\ pc = "returned" /\ selfErr = "apply" /\ ret = "nil"
    /\ isPatched /\ cfgVersion = ManifestVersion
    /\ \E k \in 1..Len(fsLog) : fsLog[k].op = "create" /\ fs[fsLog[k].path] = ServedContent

(* ----------------------------- abort claims ---------------------------- *)
DeleteMuts == { k \in 1..Len(fsLog) : fsLog[k].phase = "del" }

\* C17: an iteration of the download loop that fails on mkdir, stat, checksum or
\* download ends patch with that error: it is the last Download Entry examined,
\* no Delete Entry is processed, and a file written by an earlier entry of the
\* pass is still there; deletes start only after every download was processed.
C17_HardFailAbort ==
    /\ \A i \in 1..Len(iterErr) :
          iterErr[i] # "nil" =>
              /\ i = Len(iterErr) /\ Len(seen) = i
              /\ patchErr = iterErr[i]
              /\ Returned /\ ret = "patch"
              /\ delSeen = <<>> /\ DeleteMuts = {}
              /\ \A k \in 1..(i - 1) :
                    LET name == cacheFileList.Downloads[k].Name
                    IN /\ Downloaded(k) => isPatched
                       /\ (Wrote(k, name) /\ name # cacheFileList.Downloads[i].Name) =>
                             fs[name] = ServedContent
              /\ \A k \in 1..Len(fsLog) : fsLog[k].op # "remove"
    /\ delSeen # <<>> =>
          /\ Len(iterErr) = Len(cacheFileList.Downloads)
          /\ \A i \in 1..Len(iterErr) : iterErr[i] = "nil"

C17_Witness ==
    /\ Len(cacheFileList.Downloads) = 2
    /\ iterErr = <<"nil", "download">>
    /\ Downloaded(1) /\ Wrote(1, cacheFileList.Downloads[1].Name)
    /\ fs[cacheFileList.Downloads[1].Name] = ServedContent
    /\ pc = "returned" /\ ret = "patch"

\* a Delete Entry whose os.Stat failed for another reason than not-exist
DeleteAborted == \E j \in 1..Len(delSeen) : delSeen[j].was = "abort"

\* C18: a failed os.Remove does not end the pass: the entry removes nothing, the
\* loop goes on with the next Delete Entry in manifest order, and unless a later os.Stat
\* fails the pass records the manifest's version and patch returns nil.
C18_DeleteFailureTolerance ==
    \A j \in 1..Len(delSeen) :
        delSeen[j].rmErr =>
            /\ MutsByDelete(j) = {}
            /\ pc = "deletes" => idx = Len(delSeen) + 1
            /\ PatchFailed => DeleteAborted /\ Len(delSeen) > j
            /\ (patchErr # "none" /\ ~DeleteAborted) =>
                  /\ patchErr = "nil"
                  /\ Len(delSeen) = Len(cacheFileList.Deletes)
                  /\ cfgVersion = cacheFileList.Version
                  /\ versionWrites = <<cacheFileList.Version>>

C18_Witness ==
    /\ Len(delSeen) = 2
    /\ delSeen[1].rmErr /\ delSeen[1].was \in Contents
    /\ delSeen[2].was \in Contents /\ ~delSeen[2].rmErr
    /\ MutsByDelete(2) # {}
    /\ patchErr = "nil" /\ passMark.recorded # ManifestVersion
    /\ cfgVersion = ManifestVersion

(* ------------------------------ change flag ---------------------------- *)
PassEnded == pass >= 1 /\ patchErr # "none"

SomeDownloaded == \E i \in 1..Len(iterErr) : Downloaded(i)

SomeDeleted == \E j \in 1..Len(delSeen) : MutsByDelete(j) # {}

\* C19 as stated: after a pass c.isPatched is set exactly when at least one file
\* was downloaded or at least one obsolete file was deleted.
C19_Original == PassEnded => (isPatched <=> (SomeDownloaded \/ SomeDeleted))

(* --------------------------- bulk substitution ------------------------- *)
BulkBy(i) == { k \in ReqsBy(i) : requests[k].url = "maps.zip" }

\* the iteration of Download Entry i got as far as comparing, and had to download
NeededDownload(i) ==
    /\ ~Contains(cacheFileList.Downloads[i].Name, DotDot)
    /\ seen[i] # "abort"
    /\ ~SameHash(seen[i], cacheFileList.Downloads[i])

\* C20: the first "maps/"-prefixed Download Entry of a run that needs downloading
\* gets the bulk archive and no per-file request, and once the archive is expanded
\* it counts as downloaded whether or not its file is there; a later "maps/" entry
\* is compared with what is on disk then and gets a per-file request exactly when
\* it is absent or differs (none when os.Create fails before the request).
C20_BulkSubstitution ==
    /\ \A i \in 1..Len(seen) :
          LET entry == cacheFileList.Downloads[i]
              earlier == \E j \in 1..(i - 1) : BulkBy(j) # {}
          IN /\ (IsMapsName(entry.Name) /\ NeededDownload(i) /\ ~earlier) =>
                   /\ Cardinality(ReqsBy(i)) = 1 /\ BulkBy(i) = ReqsBy(i)
                   /\ ~Wrote(i, entry.Name) \/ fs[ZipPath] = "zip"
                   /\ iterErr[i] = "nil" => isPatched /\ isMapsDownloaded
             /\ (IsMapsName(entry.Name) /\ earlier) =>
                   /\ BulkBy(i) = {}
                   /\ ReqsBy(i) # {} => NeededDownload(i)
                   /\ NeededDownload(i) => ReqsBy(i) # {} \/ iterErr[i] = "download"
                   /\ Cardinality(ReqsBy(i)) <= 1
             /\ BulkBy(i) # {} => IsMapsName(entry.Name) /\ NeededDownload(i)
    /\ pass = 1 => totalDownloaded = DeclaredSize(Len(iterErr))

C20_Witness ==
    \E i, j \in 1..Len(seen) :
        /\ i < j
        /\ BulkBy(i) # {} /\ BulkWithoutFile(i) /\ Downloaded(i)
        /\ IsMapsName(cacheFileList.Downloads[j].Name)
        /\ seen[j] = "absent" /\ Downloaded(j)
        /\ totalDownloaded = cacheFileList.Downloads[i].Size + cacheFileList.Downloads[j].Size
        /\ isPatched

====
